---- MODULE Spec2Model ----
(***************************************************************************)
(* Model of the mongo-migrator command engine (src/migrator.go).           *)
(*                                                                         *)
(* The `migrations` collection is a bag of documents (MongoDB keeps no     *)
(* unique index on `version`).  Every call that leaves the process (a      *)
(* collection read or write, a migration's Up or Down function) is one     *)
(* atomic step; a command is the sequence of its steps.  Each such call    *)
(* may fail, chosen nondeterministically.                                  *)
(*                                                                         *)
(* TLC integers are 32 bits wide, so int64 is modelled as a two's          *)
(* complement integer of Int64Bits bits; the versions of the known         *)
(* migrations stay below MaxInt64, targets may equal it.                   *)
(***************************************************************************)
EXTENDS Integers, Sequences, FiniteSets, Bags, TLC

\* Largest version a caller-supplied migration carries.
MaxVersion == 2

\* Width of the modelled int64.
Int64Bits == 4

\* Largest number of documents in the collection when a command starts.
MaxDocs == 6

MaxInt64 == 2^(Int64Bits - 1) - 1

MinInt64 == 0 - 2^(Int64Bits - 1)

\* int64 addition (two's complement wrap-around).
Add64(a, b) ==
    LET s == a + b
    IN  IF s > MaxInt64 THEN s - 2^Int64Bits
        ELSE IF s < MinInt64 THEN s + 2^Int64Bits
        ELSE s

\* The value parseVersion returns when no version argument is given.
NoTarget == -1

\* Error values (src/errors.go and the failures of the external calls).
NoError == "nil"

ErrorCommandRequired == "Command required"

ErrorUnexpectedCommand == "Unexpected command"

ErrorInvalidVersionArgumentFormat == "Invalid version argument format"

ErrorVersionNumberRequired == "Version number required"

ErrorMigrationsCollectionAlreadyExists == "Migrations collection already exists"

ErrorMigrationsAreNotInitialized == "Migrations are not initialized"

ErrorTargetVersionNotFound == "Target migration version was not found"

ErrorSomeMigrationsAreAbsent == "Some migrations are absent"

\* An error the driver returns (network, server) on a read.
ReadError == "driver error on a read"

\* An error the driver returns on a write (insert, delete, drop).
WriteError == "driver error on a write"

\* The errors Run returns without calling a handler.
RunErrors ==
    {ErrorCommandRequired, ErrorUnexpectedCommand,
     ErrorInvalidVersionArgumentFormat, ErrorVersionNumberRequired}

\* An error returned by a migration's Up or Down function.
ApplyError == "migration function error"

\* A run-time panic (index out of range): the call never returns.
Panic == "panic: index out of range"

-----------------------------------------------------------------------------
(* Migration entity (src/migration/migration.go)                           *)

Migration(v, n, s) == [Version |-> v, Name |-> n, Stored |-> s]

CompareMigrations(left, right) == left.Version < right.Version

Less(mig, migration) == CompareMigrations(mig, migration)

\* The zero migration appended by the constructor.
ZeroMigration == Migration(0, "-", FALSE)

\* migration.DummyUpDown: a migration function that does nothing; it
\* never returns an error.
DummyUpDown(version) == version = 0

\* Whether the Up/Down function of a known migration can return an error.
CanFail(mig) == ~DummyUpDown(mig.Version)

\* The persisted part of a migration (bson tags: version, name).
Doc(mig) == [Version |-> mig.Version, Name |-> mig.Name]

\* cursor.Decode followed by mig.Stored = true.
Decode(doc) == Migration(doc.Version, doc.Name, TRUE)

-----------------------------------------------------------------------------
(* Registry / sorter                                                       *)

RECURSIVE InsertionSort(_, _)
\* sort.Sort(migration.Migrations(all)): the elements of `rest` are put
\* into the sorted sequence `sorted` one by one, ordered by Less.
InsertionSort(sorted, rest) ==
    IF rest = << >> THEN sorted
    ELSE LET x == Head(rest)
             k == Cardinality({n \in 1..Len(sorted) : ~Less(x, sorted[n])})
         IN  InsertionSort(SubSeq(sorted, 1, k) \o <<x>> \o SubSeq(sorted, k + 1, Len(sorted)),
                           Tail(rest))

SortMigrations(all) == InsertionSort(<< >>, all)

NewMigrator(migrations) == SortMigrations(Append(migrations, ZeroMigration))

\* Versions the caller may declare.
CallerVersions == {-1} \cup (1..MaxVersion)

\* Migration lists with pairwise distinct versions of the set vs, in any
\* order.
DistinctLists(vs) ==
    LET lists == UNION {[1..n -> vs] : n \in 0..Cardinality(vs)}
        inj(s) == \A a, b \in DOMAIN s : a # b => s[a] # s[b]
    IN  {[n \in DOMAIN s |-> Migration(s[n], "m", FALSE)] : s \in {t \in lists : inj(t)}}

\* Caller-supplied migration lists.
CallerLists == DistinctLists(CallerVersions)

Versions(seq) == {seq[n].Version : n \in DOMAIN seq}

-----------------------------------------------------------------------------
(* The `migrations` collection                                             *)

DocVersions(coll) == {d.Version : d \in BagToSet(coll)}

HasVersion(coll, v) == v \in DocVersions(coll)

InsertOne(coll, doc) == coll (+) SetToBag({doc})

\* DeleteOne with the filter {version: v}: removes one matching document,
\* none when nothing matches.
DeleteOne(coll, v) ==
    IF HasVersion(coll, v)
    THEN coll (-) SetToBag({CHOOSE d \in BagToSet(coll) : d.Version = v})
    ELSE coll

RECURSIVE FindAscending(_)
\* Find with the sort {version: 1}.
FindAscending(coll) ==
    IF BagToSet(coll) = {} THEN << >>
    ELSE LET lo == CHOOSE d \in BagToSet(coll) :
                       \A e \in BagToSet(coll) : d.Version <= e.Version
         IN  <<lo>> \o FindAscending(coll (-) SetToBag({lo}))

\* FindOne with the sort {version: -1}; only called on a non-empty collection.
FindDescendingOne(coll) ==
    CHOOSE d \in BagToSet(coll) : \A e \in BagToSet(coll) : e.Version <= d.Version

RECURSIVE InsertPrefix(_, _, _)
\* InsertMany (ordered): the first k documents of docs are written.
InsertPrefix(coll, docs, k) ==
    IF k = 0 THEN coll
    ELSE InsertPrefix(InsertOne(coll, Head(docs)), Tail(docs), k - 1)

-----------------------------------------------------------------------------
(* Command line (Run, parseVersion)                                        *)

Digits == <<"0", "1", "2", "3", "4", "5", "6", "7", "8", "9">>

IsDigit(c) == \E d \in 1..10 : Digits[d] = c

DigitValue(c) == (CHOOSE d \in 1..10 : Digits[d] = c) - 1

RECURSIVE FormatNat(_)
FormatNat(n) ==
    IF n < 10 THEN <<Digits[n + 1]>>
    ELSE Append(FormatNat(n \div 10), Digits[(n % 10) + 1])

\* The decimal text of an integer, as typed on the command line.
FormatInt(v) == IF v < 0 THEN <<"-">> \o FormatNat(0 - v) ELSE FormatNat(v)

RECURSIVE ParseDigits(_, _)
\* The value of a digit string, -1 when a character is no digit.
ParseDigits(s, acc) ==
    IF s = << >> THEN acc
    ELSE IF ~IsDigit(Head(s)) THEN -1
    ELSE ParseDigits(Tail(s), acc * 10 + DigitValue(Head(s)))

\* strconv.ParseInt(s, 10, 64): an optional sign, then digits only; a value
\* outside int64 is a range error.
ParseInt(s) ==
    LET signed == s # << >> /\ Head(s) \in {"+", "-"}
        body   == IF signed THEN Tail(s) ELSE s
        mag    == IF body = << >> THEN -1 ELSE ParseDigits(body, 0)
        val    == IF signed /\ Head(s) = "-" THEN 0 - mag ELSE mag
    IN  IF mag = -1 \/ val > MaxInt64 \/ val < MinInt64
        THEN [ok |-> FALSE, value |-> 0]
        ELSE [ok |-> TRUE, value |-> val]

parseVersion(required, args) ==
    IF Len(args) = 0
    THEN IF required
         THEN [version |-> 0, err |-> ErrorVersionNumberRequired]
         ELSE [version |-> NoTarget, err |-> NoError]
    ELSE LET r == ParseInt(args[1])
         IN  IF r.ok THEN [version |-> r.value, err |-> NoError]
             ELSE [version |-> 0, err |-> ErrorInvalidVersionArgumentFormat]

\* Run: the command a command line selects, the target it passes and the
\* error Run returns by itself.
Run(args) ==
    IF Len(args) = 0
    THEN [cmd |-> "none", target |-> 0, err |-> ErrorCommandRequired]
    ELSE IF args[1] \in {"init", "down", "reset", "version"}
    THEN [cmd |-> args[1], target |-> 0, err |-> NoError]
    ELSE IF args[1] \in {"up", "set_version"}
    THEN LET r == parseVersion(args[1] = "set_version", Tail(args))
         IN  [cmd |-> args[1], target |-> r.version, err |-> r.err]
    ELSE [cmd |-> args[1], target |-> 0, err |-> ErrorUnexpectedCommand]

\* Targets of up and set_version.
Targets == {NoTarget} \cup (0..MaxVersion) \cup {MaxInt64}

\* Version arguments of a command line: decimal numbers and one that is none.
VersionArgs == {FormatInt(t) : t \in Targets} \cup {<<"x">>}

\* Command lines: a command name, then at most one version argument.
CommandLines ==
    {<< >>, <<"status">>}
        \cup {<<c>> : c \in {"init", "up", "down", "reset", "version", "set_version"}}
        \cup {<<c, a>> : c \in {"up", "set_version"}, a \in VersionArgs}

-----------------------------------------------------------------------------
(* Reconciliation engine                                                   *)

RECURSIVE MergeTailActual(_, _, _, _)
\* The third loop of mergeMigrations (lines 377-380).
MergeTailActual(actual, max, j, merged) ==
    IF j < Len(actual) /\ (Len(actual) = 0 \/ actual[j + 1].Version < max)
    THEN MergeTailActual(actual, max, j + 1, Append(merged, actual[j + 1]))
    ELSE merged

RECURSIVE MergeTailApplied(_, _, _)
\* The second loop of mergeMigrations (lines 372-375).
MergeTailApplied(applied, i, merged) ==
    IF i < Len(applied)
    THEN MergeTailApplied(applied, i + 1, Append(merged, applied[i + 1]))
    ELSE [i |-> i, merged |-> merged]

\* The index the second comparison of the first loop reads `applied` at.
MergeProbe(i, j) == j

RECURSIVE MergeLoop(_, _, _, _, _, _)
\* The first loop of mergeMigrations (lines 358-370); indices count from 0
\* as in the source.  Reading applied[MergeProbe] outside the slice panics.
MergeLoop(applied, actual, max, i, j, merged) ==
    IF i < Len(applied) /\ j < Len(actual)
          /\ (Len(actual) = 0 \/ actual[j + 1].Version < max)
    THEN IF Less(applied[i + 1], actual[j + 1])
         THEN MergeLoop(applied, actual, max, i + 1, j, Append(merged, applied[i + 1]))
         ELSE IF MergeProbe(i, j) >= Len(applied)
         THEN [panic |-> TRUE, i |-> i, j |-> j, merged |-> merged]
         ELSE IF Less(actual[j + 1], applied[MergeProbe(i, j) + 1])
         THEN MergeLoop(applied, actual, max, i, j + 1, Append(merged, actual[j + 1]))
         ELSE MergeLoop(applied, actual, max, i + 1, j + 1, Append(merged, applied[i + 1]))
    ELSE [panic |-> FALSE, i |-> i, j |-> j, merged |-> merged]

\* A bound that leaves the last version out: what mergeMigrations would
\* compute without the "+ 1" of lines 352 and 354.
MergeMaxExclusive(actual, target) ==
    IF Len(actual) > 0
    THEN IF target = NoTarget THEN actual[Len(actual)].Version ELSE target
    ELSE 0

\* The bound of mergeMigrations (lines 348-356).
MergeMax(actual, target) ==
    IF Len(actual) > 0
    THEN IF target = NoTarget
         THEN Add64(actual[Len(actual)].Version, 1)
         ELSE Add64(target, 1)
    ELSE 0

mergeMigrations(applied, actual, target) ==
    LET max   == MergeMax(actual, target)
        first == MergeLoop(applied, actual, max, 0, 0, << >>)
        rest  == MergeTailApplied(applied, first.i, first.merged)
    IN  IF first.panic
        THEN [panic |-> TRUE, merged |-> first.merged]
        ELSE [panic |-> FALSE,
              merged |-> MergeTailActual(actual, max, first.j, rest.merged)]

RECURSIVE CorrelateLoop(_, _, _, _, _)
\* The loop of correlateMigrations (lines 395-408) and what follows it.
CorrelateLoop(applied, actual, i, j, correlated) ==
    IF i < Len(applied) /\ j < Len(actual)
    THEN IF Less(applied[i + 1], actual[j + 1])
         THEN [correlated |-> Append(correlated, applied[i + 1]),
               err |-> ErrorSomeMigrationsAreAbsent]
         ELSE IF Less(actual[j + 1], applied[i + 1])
         THEN CorrelateLoop(applied, actual, i, j + 1, correlated)
         ELSE CorrelateLoop(applied, actual, i + 1, j + 1, Append(correlated, actual[j + 1]))
    ELSE IF i < Len(applied)
    THEN [correlated |-> Append(correlated, applied[i + 1]),
          err |-> ErrorSomeMigrationsAreAbsent]
    ELSE [correlated |-> correlated, err |-> NoError]

\* A correlation that reports no absent migration.
CorrelateLenient(applied, actual) ==
    [CorrelateLoop(applied, actual, 0, 0, << >>) EXCEPT !.err = NoError]

\* A correlation whose search of `actual` starts one item late.
CorrelateLate(applied, actual) == CorrelateLoop(applied, actual, 0, 1, << >>)

correlateMigrations(applied, actual) == CorrelateLoop(applied, actual, 0, 0, << >>)

-----------------------------------------------------------------------------
(* State                                                                   *)

VARIABLES
    known,  \* m.migrations: the list the constructor built
    db,     \* the documents of the `migrations` collection
    inv,    \* per process: the command it runs, its locals and its results
    script, \* history: the commands that returned since the collection was empty
    fcall   \* a call of the constructor or of the reconciliation engine alone

vars == <<known, db, inv, script, fcall>>

\* No call of a function alone is under way.
NoCall == [fn |-> "none", pc |-> "return"]

\* Processes that run a migrator against the database.
Procs == {"p", "q"}

\* A command's locals and named results.  pc is the next external call;
\* plan is `merged` (Up), `correlated` (Reset) or `migs` (SetVersion) and
\* i counts from 1; ops logs the calls of migration functions; db0 is the
\* collection as the command first found it.
Frame(cmd, via, target, coll) ==
    [pc |-> "start", cmd |-> cmd, via |-> via, target |-> target,
     oldVersion |-> 0, newVersion |-> 0, err |-> NoError,
     plan |-> << >>, i |-> 0, ops |-> << >>, db0 |-> coll]

Idle == [Frame("none", "none", 0, EmptyBag) EXCEPT !.pc = "idle"]

\* The command returns (or panics): its locals are gone.
Return(s) == [s EXCEPT !.pc = "done", !.plan = << >>, !.i = 0]

Fail(s, e) == Return([s EXCEPT !.err = e])

\* The ways a specification runs the commands: whether the script is
\* kept (and how long it may grow) and which outcomes `failed` the
\* external calls may have.
Plain == [log |-> FALSE, len |-> 0, faults |-> BOOLEAN]

CanStart(p, m) ==
    /\ inv[p].pc \in {"idle", "done"}
    /\ BagCardinality(db) <= MaxDocs
    /\ Len(script) <= m.len

Call(op, mig, failed) == [op |-> op, version |-> mig.Version, ok |-> ~failed]

\* What the script keeps of a command that returned.
Summary(s) ==
    [cmd |-> s.cmd, via |-> s.via, target |-> s.target, err |-> s.err,
     oldVersion |-> s.oldVersion, newVersion |-> s.newVersion,
     ops |-> s.ops, db0 |-> s.db0, known |-> known]

\* A step of process p: its frame becomes s, the collection becomes coll.
Step(p, m, s, coll) ==
    /\ inv' = [inv EXCEPT ![p] = s]
    /\ db' = coll
    /\ script' = IF m.log /\ s.pc = "done" THEN Append(script, Summary(s)) ELSE script
    /\ UNCHANGED <<known, fcall>>

\* How a command line hands over its target.
Via(args) == IF Len(args) > 1 THEN "arg" ELSE "run"

\* The calls of handler cmd that Run makes.  A direct call Up(db, t) or
\* SetVersion(db, t) is the call Run makes for the version argument t.
Entries(cmd) ==
    {[via |-> Via(a), target |-> Run(a).target] :
        a \in {b \in CommandLines : Run(b).cmd = cmd /\ Run(b).err = NoError}}

InitEntries == Entries("init")

UpEntries == Entries("up")

DownEntries == Entries("down")

ResetEntries == Entries("reset")

VersionEntries == Entries("version")

SetVersionEntries == Entries("set_version")

\* The command lines Run rejects, each with Run's answer.
Rejected == {[via |-> Via(a), run |-> Run(a)] : a \in {b \in CommandLines : Run(b).err # NoError}}

-----------------------------------------------------------------------------
(* Construction                                                            *)

Init ==
    /\ known \in {NewMigrator(l) : l \in CallerLists}
    /\ db = EmptyBag
    /\ inv = [p \in Procs |-> Idle]
    /\ script = << >>
    /\ fcall = NoCall

\* A process is started with another build of the application: the
\* constructor runs on that build's migration list.
Construct ==
    /\ \A p \in Procs : inv[p].pc \in {"idle", "done"}
    /\ \E l \in CallerLists : known' = NewMigrator(l)
    /\ known' # known
    /\ inv' = [p \in Procs |-> Idle]
    /\ UNCHANGED <<db, script, fcall>>

\* Run returns an error without calling a handler (lines 34-37, 48-50,
\* 63-65, 68-70).
RunRejected(p, m) ==
    /\ CanStart(p, m)
    /\ \E r \in Rejected :
        Step(p, m, Fail(Frame(r.run.cmd, r.via, 0, db), r.run.err), db)

-----------------------------------------------------------------------------
(* init                                                                    *)

\* An `init` that does not look for the zero record.
InitFindBlind(s, coll, failed) ==
    IF failed THEN Fail(s, ReadError) ELSE [s EXCEPT !.pc = "init_insert"]

\* FindOne({version: 0}) of Init (lines 76-86).
InitFind(s, coll, failed) ==
    IF failed THEN Fail(s, ReadError)
    ELSE IF HasVersion(coll, 0) THEN Fail(s, ErrorMigrationsCollectionAlreadyExists)
    ELSE [s EXCEPT !.pc = "init_insert"]

InitCmd(p, m) ==
    /\ CanStart(p, m)
    /\ \E e \in InitEntries, failed \in m.faults :
        Step(p, m, InitFind(Frame("init", e.via, e.target, db), db, failed), db)

\* InsertOne of Init (lines 88-89).
InitInsert(p, m) ==
    /\ inv[p].pc = "init_insert"
    /\ \E failed \in m.faults :
        IF failed THEN Step(p, m, Fail(inv[p], WriteError), db)
        ELSE Step(p, m, Return(inv[p]), InsertOne(db, Doc(Migration(0, "-", FALSE))))

-----------------------------------------------------------------------------
(* up                                                                      *)

\* The documents a Find returns, decoded (lines 106-117, 206-217).
History(coll) ==
    LET docs == FindAscending(coll)
    IN  [n \in 1..Len(docs) |-> Decode(docs[n])]

\* A loop of Up that takes the items from the end of `merged`.
UpNextFromEnd(s) ==
    LET pending == {n \in (s.i + 1)..Len(s.plan) : ~s.plan[n].Stored}
    IN  IF pending = {} THEN Return(s)
        ELSE [s EXCEPT !.pc = "up_apply",
                       !.i = CHOOSE n \in pending : \A m \in pending : m <= n]

\* The loop of Up (lines 129-143) up to its next external call: stored
\* items are passed over.
UpNext(s) ==
    LET pending == {n \in (s.i + 1)..Len(s.plan) : ~s.plan[n].Stored}
    IN  IF pending = {} THEN Return(s)
        ELSE [s EXCEPT !.pc = "up_apply",
                       !.i = CHOOSE n \in pending : \A m \in pending : n <= m]

\* Up from its Find to the first call of a migration function (lines 94-129).
UpFind(s, coll, actual, failed) ==
    IF failed THEN Fail(s, ReadError)
    ELSE LET history == History(coll)
             length  == Len(history)
             version == IF length > 0 THEN history[length].Version ELSE 0
             r       == mergeMigrations(history, actual, s.target)
             t       == [s EXCEPT !.oldVersion = version, !.newVersion = version]
         IN  IF r.panic THEN Fail(t, Panic)
             ELSE UpNext([t EXCEPT !.plan = r.merged])

Up(p, m) ==
    /\ CanStart(p, m)
    /\ \E e \in UpEntries, failed \in m.faults :
        Step(p, m, UpFind(Frame("up", e.via, e.target, db), db, known, failed), db)

\* An `up` that goes on to the insert whatever migr.Up returned.
UpApplyStepUnchecked(s, failed) ==
    [s EXCEPT !.newVersion = s.plan[s.i].Version,
              !.ops = Append(@, Call("up", s.plan[s.i], failed)),
              !.pc = "up_insert"]

\* newVersion = migr.Version and migr.Up(db) (lines 131-135).
UpApplyStep(s, failed) ==
    LET migr == s.plan[s.i]
        t    == [s EXCEPT !.newVersion = migr.Version,
                          !.ops = Append(@, Call("up", migr, failed))]
    IN  IF failed THEN Fail(t, ApplyError) ELSE [t EXCEPT !.pc = "up_insert"]

UpApply(p, m) ==
    /\ inv[p].pc = "up_apply"
    /\ \E failed \in {FALSE, CanFail(inv[p].plan[inv[p].i])} \cap m.faults :
        Step(p, m, UpApplyStep(inv[p], failed), db)

\* coll.InsertOne(&migr) (lines 137-141).
UpInsert(p, m) ==
    /\ inv[p].pc = "up_insert"
    /\ \E failed \in m.faults :
        IF failed THEN Step(p, m, Fail(inv[p], WriteError), db)
        ELSE Step(p, m, UpNext(inv[p]), InsertOne(db, Doc(inv[p].plan[inv[p].i])))

-----------------------------------------------------------------------------
(* down                                                                    *)

\* The index (from 1) of the migration the loop of Down stops at: the last
\* one whose version is v; 0 when the loop ends without a match.
DownIndex(actual, v) ==
    LET hits == {n \in 1..Len(actual) : actual[n].Version = v}
    IN  IF hits = {} THEN 0 ELSE CHOOSE n \in hits : \A m \in hits : m <= n

\* A `down` that reports the version it reverted as the new one.
DownNewVersionSame(actual, n) == actual[n].Version

\* The version Down returns as new when it reverts actual[n] (line 175).
DownNewVersion(actual, n) == actual[n - 1].Version

\* Down from its FindOne to the call of mig.Down (lines 150-177).
DownFind(s, coll, actual, failed) ==
    IF failed THEN Fail(s, ReadError)
    ELSE IF BagToSet(coll) = {} THEN Fail(s, ErrorMigrationsAreNotInitialized)
    ELSE LET old == Decode(FindDescendingOne(coll))
             t   == [s EXCEPT !.oldVersion = old.Version, !.newVersion = old.Version]
             n   == DownIndex(actual, old.Version)
         IN  IF n > 1
             THEN [t EXCEPT !.newVersion = DownNewVersion(actual, n),
                            !.plan = <<actual[n]>>, !.i = 1, !.pc = "down_revert"]
             ELSE Return(t)

Down(p, m) ==
    /\ CanStart(p, m)
    /\ \E e \in DownEntries, failed \in m.faults :
        Step(p, m, DownFind(Frame("down", e.via, e.target, db), db, known, failed), db)

\* mig.Down(db) (lines 177-179).
DownRevertStep(s, failed) ==
    LET t == [s EXCEPT !.ops = Append(@, Call("down", s.plan[s.i], failed))]
    IN  IF failed THEN Fail(t, ApplyError) ELSE [t EXCEPT !.pc = "down_delete"]

DownRevert(p, m) ==
    /\ inv[p].pc = "down_revert"
    /\ \E failed \in {FALSE, CanFail(inv[p].plan[inv[p].i])} \cap m.faults :
        Step(p, m, DownRevertStep(inv[p], failed), db)

\* coll.DeleteOne({version: mig.Version}) (lines 181-185).
DownDelete(p, m) ==
    /\ inv[p].pc = "down_delete"
    /\ \E failed \in m.faults :
        IF failed THEN Step(p, m, Fail(inv[p], WriteError), db)
        ELSE Step(p, m, Return(inv[p]), DeleteOne(db, inv[p].plan[inv[p].i].Version))

-----------------------------------------------------------------------------
(* reset                                                                   *)

\* Reset from its Find to the first call of a migration function
\* (lines 194-235).
ResetFind(s, coll, actual, failed) ==
    IF failed THEN Fail(s, ReadError)
    ELSE LET history == History(coll)
             length  == Len(history)
         IN  IF length = 0 THEN Return(s)
             ELSE LET version == history[length].Version
                      t == [s EXCEPT !.oldVersion = version, !.newVersion = version]
                      r == correlateMigrations(history, actual)
                  IN  IF r.err # NoError THEN Fail(t, r.err)
                      ELSE [t EXCEPT !.plan = r.correlated, !.i = Len(r.correlated),
                                     !.pc = "reset_revert"]

Reset(p, m) ==
    /\ CanStart(p, m)
    /\ \E e \in ResetEntries, failed \in m.faults :
        Step(p, m, ResetFind(Frame("reset", e.via, e.target, db), db, known, failed), db)

\* The loop of Reset goes on with the item below (line 234).
ResetNext(s) ==
    IF s.i > 1 THEN [s EXCEPT !.i = s.i - 1, !.pc = "reset_revert"]
    ELSE Return(s)

\* A `reset` that deletes the zero record as well.
ResetDeletesZero(migr) == migr.Version >= 0

\* Whether Reset deletes the record of a reverted migration (line 250).
ResetDeletes(migr) == migr.Version > 0

\* newVersion and migr.Down(db) (lines 235-250).
ResetRevertStep(s, failed) ==
    LET migr == s.plan[s.i]
        t    == [s EXCEPT !.newVersion = IF s.i > 1 THEN s.plan[s.i - 1].Version
                                         ELSE migr.Version,
                          !.ops = Append(@, Call("down", migr, failed))]
    IN  IF failed THEN Fail(t, ApplyError)
        ELSE IF ResetDeletes(migr) THEN [t EXCEPT !.pc = "reset_delete"]
        ELSE ResetNext(t)

ResetRevert(p, m) ==
    /\ inv[p].pc = "reset_revert"
    /\ \E failed \in {FALSE, CanFail(inv[p].plan[inv[p].i])} \cap m.faults :
        Step(p, m, ResetRevertStep(inv[p], failed), db)

\* coll.DeleteOne({version: migr.Version}) (lines 251-253).
ResetDelete(p, m) ==
    /\ inv[p].pc = "reset_delete"
    /\ \E failed \in m.faults :
        IF failed THEN Step(p, m, Fail(inv[p], WriteError), db)
        ELSE Step(p, m, ResetNext(inv[p]), DeleteOne(db, inv[p].plan[inv[p].i].Version))

-----------------------------------------------------------------------------
(* version                                                                 *)

\* Version (lines 261-280).
VersionFind(s, coll, failed) ==
    IF failed THEN Fail(s, ReadError)
    ELSE IF BagToSet(coll) = {} THEN Fail(s, ErrorMigrationsAreNotInitialized)
    ELSE LET mig == Decode(FindDescendingOne(coll))
         IN  Return([s EXCEPT !.oldVersion = mig.Version, !.newVersion = mig.Version])

Version(p, m) ==
    /\ CanStart(p, m)
    /\ \E e \in VersionEntries, failed \in m.faults :
        Step(p, m, VersionFind(Frame("version", e.via, e.target, db), db, failed), db)

-----------------------------------------------------------------------------
(* set_version                                                             *)

\* An index that stays at the last migration when no version is the target.
TargetIndexOrLast(actual, target) ==
    LET hits == {n \in 1..Len(actual) : actual[n].Version = target}
    IN  IF hits = {} THEN Len(actual) ELSE CHOOSE n \in hits : \A m \in hits : n <= m

\* The index (from 1) the loop of SetVersion breaks at: the first migration
\* whose version is the target; 0 when there is none (lines 289-298).
TargetIndex(actual, target) ==
    LET hits == {n \in 1..Len(actual) : actual[n].Version = target}
    IN  IF hits = {} THEN 0 ELSE CHOOSE n \in hits : \A m \in hits : n <= m

\* A `set_version` that records every known migration.
MigsAll(actual, index) == actual

\* `migs` when the loop of SetVersion breaks at index (lines 290-298).
Migs(actual, index) == SubSeq(actual, 1, index)

\* SetVersion from its call of Version to coll.Drop (lines 284-308).
SetVersionFind(s, coll, actual, failed) ==
    LET v == VersionFind(s, coll, failed)
        t == [s EXCEPT !.oldVersion = v.oldVersion]
        index == TargetIndex(actual, s.target)
    IN  IF v.err # NoError THEN Fail(s, v.err)
        ELSE IF index = 0 THEN Fail(t, ErrorTargetVersionNotFound)
        ELSE IF t.oldVersion = actual[index].Version
        THEN Return([t EXCEPT !.newVersion = t.oldVersion])
        ELSE [t EXCEPT !.plan = Migs(actual, index), !.pc = "set_version_drop"]

SetVersion(p, m) ==
    /\ CanStart(p, m)
    /\ \E e \in SetVersionEntries, failed \in m.faults :
        Step(p, m, SetVersionFind(Frame("set_version", e.via, e.target, db), db, known, failed),
             db)

\* coll.Drop (lines 309-311).
SetVersionDrop(p, m) ==
    /\ inv[p].pc = "set_version_drop"
    /\ \E failed \in m.faults :
        IF failed THEN Step(p, m, Fail(inv[p], WriteError), db)
        ELSE Step(p, m, [inv[p] EXCEPT !.pc = "set_version_insert"], EmptyBag)

\* The documents InsertMany is given.
Docs(migs) == [n \in 1..Len(migs) |-> Doc(migs[n])]

\* coll.InsertMany(migs) (lines 313-318): a failed call has written the
\* documents before the one that failed.
SetVersionInsert(p, m) ==
    /\ inv[p].pc = "set_version_insert"
    /\ \E failed \in m.faults :
        LET migs == inv[p].plan
        IN  IF failed
            THEN \E k \in 0..(Len(migs) - 1) :
                    Step(p, m, Fail(inv[p], WriteError), InsertPrefix(db, Docs(migs), k))
            ELSE Step(p, m, Return([inv[p] EXCEPT !.newVersion = migs[Len(migs)].Version]),
                      InsertPrefix(db, Docs(migs), Len(migs)))

-----------------------------------------------------------------------------
(* Specification                                                           *)

\* The commands and steps of process p.
Command(p, m) ==
    \/ RunRejected(p, m)
    \/ InitCmd(p, m) \/ InitInsert(p, m)
    \/ Up(p, m) \/ UpApply(p, m) \/ UpInsert(p, m)
    \/ Down(p, m) \/ DownRevert(p, m) \/ DownDelete(p, m)
    \/ Reset(p, m) \/ ResetRevert(p, m) \/ ResetDelete(p, m)
    \/ Version(p, m)
    \/ SetVersion(p, m) \/ SetVersionDrop(p, m) \/ SetVersionInsert(p, m)

\* Processes come and go with any build, one command at a time, and any
\* external call may fail.
Next == Construct \/ Command("p", Plain)

Spec == Init /\ [][Next]_vars

\* Number of commands the script holds before the last command starts.
MaxScript == 2

\* One build runs commands on a database that starts empty; no external
\* call fails; the script is kept.
Scripted == [log |-> TRUE, len |-> MaxScript, faults |-> {FALSE}]

\* The commands of the script are those for which Run calls a handler.
NextScript ==
    \/ InitCmd("p", Scripted) \/ InitInsert("p", Scripted)
    \/ Up("p", Scripted) \/ UpApply("p", Scripted) \/ UpInsert("p", Scripted)
    \/ Down("p", Scripted) \/ DownRevert("p", Scripted) \/ DownDelete("p", Scripted)
    \/ Reset("p", Scripted) \/ ResetRevert("p", Scripted) \/ ResetDelete("p", Scripted)
    \/ Version("p", Scripted)
    \/ SetVersion("p", Scripted) \/ SetVersionDrop("p", Scripted)
    \/ SetVersionInsert("p", Scripted)

SpecScript == Init /\ [][NextScript]_vars

-----------------------------------------------------------------------------
(* The constructor and the reconciliation engine alone                     *)

\* Versions of the sequences the engine is called with.
EngineVersions == (0 - 1)..MaxVersion

RECURSIVE AscendingList(_, _)
\* The version-ascending sequence of the migrations of the versions vs,
\* stored (read from the collection) or not (known).
AscendingList(vs, stored) ==
    IF vs = {} THEN << >>
    ELSE LET hi == CHOOSE v \in vs : \A w \in vs : w <= v
         IN  Append(AscendingList(vs \ {hi}, stored),
                    Migration(hi, IF hi = 0 THEN "-" ELSE "m", stored))

\* `applied`: what Up and Reset read from the collection.
AppliedLists == {AscendingList(vs, TRUE) : vs \in SUBSET EngineVersions}

\* `actual`: m.migrations.
ActualLists == {AscendingList(vs, FALSE) : vs \in SUBSET EngineVersions}

\* Free elements of capacity behind the caller's slice.
MaxSpare == 1

\* NewMigrator on a caller's slice with `spare` free elements of capacity:
\* append writes the zero migration into the caller's backing array when
\* there is room for it, and sort.Sort then sorts that array in place.
\* `caller` is the caller's slice afterwards, `again` the list of a second
\* migrator made from it.
NewMigratorOnSlice(migrations, spare) ==
    LET all    == NewMigrator(migrations)
        caller == IF spare > 0 THEN SubSeq(all, 1, Len(migrations)) ELSE migrations
    IN  [migrations |-> all, caller |-> caller, again |-> NewMigrator(caller)]

EngineCalls ==
    {[fn |-> "correlateMigrations", pc |-> "call", applied |-> a, actual |-> b] :
        a \in AppliedLists, b \in ActualLists}
    \cup {[fn |-> "mergeMigrations", pc |-> "call", applied |-> a, actual |-> b, target |-> t] :
        a \in AppliedLists, b \in ActualLists, t \in Targets}
    \cup {[fn |-> "NewMigrator", pc |-> "call", migrations |-> l, spare |-> c] :
        l \in DistinctLists(EngineVersions), c \in 0..MaxSpare}

InitEngine ==
    /\ known = NewMigrator(<< >>)
    /\ db = EmptyBag
    /\ inv = [p \in Procs |-> Idle]
    /\ script = << >>
    /\ fcall \in EngineCalls

\* The function returns: out is its result.
Returns(out) ==
    /\ fcall.pc = "call"
    /\ fcall' = [fn |-> fcall.fn, pc |-> "return", in |-> fcall, out |-> out]
    /\ UNCHANGED <<known, db, inv, script>>

CorrelateCall ==
    /\ fcall.fn = "correlateMigrations"
    /\ Returns(correlateMigrations(fcall.applied, fcall.actual))

MergeCall ==
    /\ fcall.fn = "mergeMigrations"
    /\ Returns(mergeMigrations(fcall.applied, fcall.actual, fcall.target))

NewMigratorCall ==
    /\ fcall.fn = "NewMigrator"
    /\ Returns(NewMigratorOnSlice(fcall.migrations, fcall.spare))

NextEngine == CorrelateCall \/ MergeCall \/ NewMigratorCall

SpecEngine == InitEngine /\ [][NextEngine]_vars

\* Number of commands the script holds before the last command of an
\* observed pair starts.
Reruns == 1

\* A process is started, with any build, on the database as it is; the
\* script starts anew with it.
Rebuild ==
    /\ \A p \in Procs : inv[p].pc \in {"idle", "done"}
    /\ \E l \in CallerLists : known' = NewMigrator(l)
    /\ inv' = [p \in Procs |-> Idle]
    /\ script' = << >>
    /\ UNCHANGED <<db, fcall>>

\* The process runs a command and then another; external calls may fail;
\* the script is kept.
Observed == [log |-> TRUE, len |-> Reruns, faults |-> BOOLEAN]

NextRerun == Rebuild \/ Command("p", Observed)

SpecRerun == Init /\ [][NextRerun]_vars

\* Two processes of one build run against the same database, their
\* external calls interleaved: one runs `init` and `up`, the other runs
\* `up`; no external call fails.
Racing == [log |-> FALSE, len |-> 0, faults |-> {FALSE}]

NextRace ==
    \/ InitCmd("p", Racing) \/ InitInsert("p", Racing)
    \/ Up("p", Racing) \/ UpApply("p", Racing) \/ UpInsert("p", Racing)
    \/ Up("q", Racing) \/ UpApply("q", Racing) \/ UpInsert("q", Racing)

SpecRace == Init /\ [][NextRace]_vars

-----------------------------------------------------------------------------
(* Vocabulary of the properties                                            *)

\* The frame of the process that runs the commands.
F == inv["p"]

\* Run called the handler of cmd and the handler has returned.
Returned(cmd) == F.pc = "done" /\ F.cmd = cmd /\ F.err \notin RunErrors

\* No external call of the command has failed.
NoFault == F.err \notin {ReadError, WriteError, ApplyError}

\* The current version of a non-empty collection: its highest version.
Current(coll) == CHOOSE v \in DocVersions(coll) : \A w \in DocVersions(coll) : w <= v

\* The versions of the calls of migration functions a frame logged.
Called(s, op) == {s.ops[n].version : n \in {k \in DOMAIN s.ops : s.ops[k].op = op}}

Ascending(ops) == \A a, b \in DOMAIN ops : a < b => ops[a].version < ops[b].version

Descending(ops) == \A a, b \in DOMAIN ops : a < b => ops[a].version > ops[b].version

AllOk(ops, op) == \A n \in DOMAIN ops : ops[n].op = op /\ ops[n].ok

\* One document per migration of the sequence, and no other.
Records(migs) == SetToBag({Doc(migs[n]) : n \in DOMAIN migs})

ZeroRecordOnly == SetToBag({Doc(ZeroMigration)})

\* The script starts with an `init` that succeeded on the empty collection.
StartsWithInit == Len(script) >= 1 /\ script[1].cmd = "init" /\ script[1].err = NoError

\* Command n of the script is an `up` with no target that succeeded.
UpAllSucceeded(n) ==
    /\ Len(script) >= n
    /\ script[n].cmd = "up" /\ script[n].via = "run" /\ script[n].err = NoError

-----------------------------------------------------------------------------
(* C1                                                                      *)

C1_Case ==
    /\ Returned("up") /\ F.via = "run"
    /\ Len(script) = 2 /\ StartsWithInit
    /\ \A v \in Versions(known) : v >= 0

\* C1: from the empty collection, with known versions that are all greater
\* than 0 besides the zero migration, `init` followed by `up` without a
\* target calls Up once for every known version above 0, in ascending
\* order, returns old = 0 and new = the highest known version, and leaves
\* one record per known migration, the zero record included.
C1_InitThenUpAppliesAll ==
    C1_Case =>
        /\ F.err = NoError
        /\ AllOk(F.ops, "up") /\ Ascending(F.ops)
        /\ Called(F, "up") = Versions(known) \ {0}
        /\ F.oldVersion = 0
        /\ F.newVersion \in Versions(known)
        /\ \A v \in Versions(known) : v <= F.newVersion
        /\ db = Records(known)

C1_Witness == C1_Case /\ Len(F.ops) >= 2 /\ BagCardinality(db) >= 3

-----------------------------------------------------------------------------
(* C2                                                                      *)

\* The known migrations an `up` of frame s has to apply: no record when the
\* command started, and not above the target when one was given.
Pending(s, actual) ==
    {n \in DOMAIN actual :
        /\ ~HasVersion(s.db0, actual[n].Version)
        /\ s.via = "run" \/ actual[n].Version <= s.target}

\* C2: an `up` in which no external call fails calls Up for every known
\* migration without a record whose version is not above the target (for
\* every known migration without a record when no target is given).
\* Stated for the targets whose bound target + 1 does not wrap around, for
\* known versions that are not negative, and for a collection that holds
\* the zero record.
C2_UpAppliesEveryPending ==
    (/\ Returned("up") /\ NoFault /\ F.target < MaxInt64
     /\ HasVersion(F.db0, 0)
     /\ \A v \in Versions(known) : v >= 0)
        => \A n \in Pending(F, known) : known[n].Version \in Called(F, "up")

-----------------------------------------------------------------------------
(* C3                                                                      *)

\* C3: an `up` given the target T never calls Up for a version above T and
\* never inserts a record of a version above T.  Stated for a collection
\* that holds the zero record when the command starts.
C3_UpStaysBelowTarget ==
    (/\ F.cmd = "up" /\ F.via = "arg" /\ F.err \notin RunErrors
     /\ HasVersion(F.db0, 0))
        => /\ \A v \in Called(F, "up") : v <= F.target
           /\ \A d \in BagToSet(db) :
                CopiesIn(d, db) > CopiesIn(d, F.db0) => d.Version <= F.target

-----------------------------------------------------------------------------
(* C4                                                                      *)

\* C4: on a collection without documents, `up`, `down`, `reset`, `version`
\* and `set_version` call no migration function, write nothing, and return
\* ErrorMigrationsAreNotInitialized (unless the read itself fails).
C4_NotInitialized ==
    (/\ F.cmd \in {"up", "down", "reset", "version", "set_version"}
     /\ F.err \notin RunErrors
     /\ F.db0 = EmptyBag)
        => /\ F.ops = << >>
           /\ db = EmptyBag
           /\ F.pc = "done" => F.err \in {ErrorMigrationsAreNotInitialized, ReadError}

-----------------------------------------------------------------------------
(* C5                                                                      *)

C5_Case ==
    /\ Returned("reset")
    /\ Len(script) = 3 /\ StartsWithInit /\ UpAllSucceeded(2)

PositiveVersion(call) == call.version > 0

\* C5: after `init` and a successful `up` without a target, `reset` calls
\* Down for every recorded version above 0 in descending order, deletes
\* those records, returns old = the version before and new = 0 without an
\* error, and leaves the zero record alone in the collection.
C5_ResetAfterUp ==
    C5_Case =>
        /\ F.err = NoError
        /\ AllOk(F.ops, "down")
        /\ Descending(SelectSeq(F.ops, PositiveVersion))
        /\ {v \in Called(F, "down") : v > 0} = {v \in DocVersions(F.db0) : v > 0}
        /\ F.oldVersion = Current(F.db0)
        /\ F.oldVersion = script[2].newVersion
        /\ F.newVersion = 0
        /\ db = ZeroRecordOnly

C5_Witness == C5_Case /\ Len(F.ops) >= 3 /\ F.oldVersion >= 2

-----------------------------------------------------------------------------
(* C6                                                                      *)

C6_Case ==
    /\ F.cmd = "reset" /\ F.err # ReadError
    /\ \E v \in DocVersions(F.db0) : v \notin Versions(known)

\* C6: when a recorded version has no known migration, `reset` returns
\* ErrorSomeMigrationsAreAbsent, calls no Down and deletes nothing: the
\* collection stays as the command found it.
C6_ResetRefusesAbsent ==
    C6_Case =>
        /\ F.pc = "done"
        /\ F.err = ErrorSomeMigrationsAreAbsent
        /\ F.ops = << >>
        /\ db = F.db0

C6_Witness == C6_Case /\ F.pc = "done" /\ BagCardinality(F.db0) >= 3

-----------------------------------------------------------------------------
(* C7                                                                      *)

\* C7: when `up`, `down` or `reset` stops because a migration function or
\* a write failed, the new version it returns is the highest recorded
\* version at that moment.
C7_NewVersionIsLastCompletedStep ==
    (/\ F.pc = "done" /\ F.cmd \in {"up", "down", "reset"}
     /\ F.err \in {ApplyError, WriteError}
     /\ db # EmptyBag)
        => F.newVersion = Current(db)

-----------------------------------------------------------------------------
(* C8                                                                      *)

\* C8: once `init` has succeeded the collection holds the zero record in
\* every state, between and within the commands that follow.
C8_ZeroRecordStays == StartsWithInit => HasVersion(db, 0)

-----------------------------------------------------------------------------
(* C9                                                                      *)

\* `down` has returned, no external call failed, and the current version
\* was that of a known migration other than the lowest.
C9_Case ==
    /\ Returned("down") /\ NoFault
    /\ F.db0 # EmptyBag
    /\ Current(F.db0) \in Versions(known)
    /\ \E w \in Versions(known) : w < Current(F.db0)

\* C9: then `down` has called Down once, for the current version v, has
\* deleted one record of v and no other, and returns old = v and new = the
\* next lower known version.
C9_DownRevertsOneStep ==
    C9_Case =>
        LET v == Current(F.db0)
        IN  /\ F.err = NoError
            /\ F.ops = <<[op |-> "down", version |-> v, ok |-> TRUE]>>
            /\ \E d \in BagToSet(F.db0) : d.Version = v /\ db (+) SetToBag({d}) = F.db0
            /\ F.oldVersion = v
            /\ F.newVersion \in Versions(known) /\ F.newVersion < v
            /\ \A w \in Versions(known) : w < v => w <= F.newVersion

C9_Witness == C9_Case /\ BagCardinality(F.db0) >= 3 /\ F.newVersion # 0

-----------------------------------------------------------------------------
(* C10                                                                     *)

\* `set_version` has returned, no external call failed, the collection held
\* documents and the target is the version of a known migration.
C10_Case ==
    /\ Returned("set_version") /\ NoFault
    /\ F.db0 # EmptyBag
    /\ F.target \in Versions(known)

\* C10: `set_version` calls no migration function; for a known target T
\* other than the current version it leaves one record per known version
\* up to T and no other and returns old = the version before, new = T; for
\* T the current version it changes nothing and returns old = new = T.
C10_SetVersionRewrites ==
    /\ F.cmd = "set_version" => F.ops = << >>
    /\ C10_Case =>
        /\ F.err = NoError
        /\ F.oldVersion = Current(F.db0)
        /\ F.newVersion = F.target
        /\ IF F.target # Current(F.db0)
           THEN db = SetToBag({Doc(known[n]) :
                        n \in {k \in DOMAIN known : known[k].Version <= F.target}})
           ELSE db = F.db0

C10_Witness ==
    /\ C10_Case /\ F.target # Current(F.db0)
    /\ BagCardinality(db) >= 2 /\ db # F.db0
    /\ \E v \in DocVersions(F.db0) : v > F.target

-----------------------------------------------------------------------------
(* C11                                                                     *)

\* The first command of the script was an `up` that a failed migration
\* function or a failed write stopped, and the command that follows it is
\* an `up` of the same build with the same target.
C11_Case ==
    /\ F.cmd = "up" /\ F.err \notin RunErrors
    /\ Len(script) = (IF F.pc = "done" THEN 2 ELSE 1)
    /\ script[1].cmd = "up" /\ script[1].err \in {ApplyError, WriteError}
    /\ script[1].known = known
    /\ script[1].via = F.via /\ script[1].target = F.target

\* The versions whose Up returned no error in the `up` that was stopped.
AppliedBefore ==
    {script[1].ops[n].version : n \in {k \in DOMAIN script[1].ops : script[1].ops[k].ok}}

\* C11: an `up` that follows an `up` stopped by an error, with the same
\* known migrations and target, calls Up for no version whose Up succeeded
\* in the stopped run, and calls Up in ascending order of version.  Stated
\* for non-negative known versions and a collection that held the zero
\* record when the stopped run began.
C11_RerunAppliesOnlyTheRest ==
    (/\ C11_Case
     /\ \A v \in Versions(known) : v >= 0
     /\ HasVersion(script[1].db0, 0))
        => /\ Called(F, "up") \cap AppliedBefore = {}
           /\ Ascending(F.ops)

-----------------------------------------------------------------------------
(* C12                                                                     *)

\* `init` has returned and none of its external calls failed.
C12_Case == Returned("init") /\ NoFault

\* C12: `init` on a collection without the zero record inserts one record
\* (version 0, name "-") and returns old = new = 0 without an error; on a
\* collection with the zero record it returns
\* ErrorMigrationsCollectionAlreadyExists and leaves the collection as it
\* was.  Either way the collection holds the zero record afterwards, so an
\* `init` that follows takes the second branch.
C12_InitOnce ==
    C12_Case =>
        /\ F.ops = << >>
        /\ HasVersion(db, 0)
        /\ IF HasVersion(F.db0, 0)
           THEN F.err = ErrorMigrationsCollectionAlreadyExists /\ db = F.db0
           ELSE /\ F.err = NoError /\ F.oldVersion = 0 /\ F.newVersion = 0
                /\ db = F.db0 (+) SetToBag({[Version |-> 0, Name |-> "-"]})

C12_Witness ==
    /\ C12_Case /\ F.err = ErrorMigrationsCollectionAlreadyExists
    /\ BagCardinality(db) >= 2

-----------------------------------------------------------------------------
(* C13                                                                     *)

\* A call of function fn has returned.
Returned1(fn) == fcall.fn = fn /\ fcall.pc = "return"

Lowest(vs) == CHOOSE v \in vs : \A w \in vs : v <= w

\* C13: for version-ascending applied and actual with unique versions,
\* correlateMigrations returns no error exactly when every applied version
\* is a version of actual; then the output has the length and the versions
\* of applied and is made of the items of actual; otherwise its last item
\* has the lowest applied version that actual lacks.
C13_Correlate ==
    Returned1("correlateMigrations") =>
        LET applied == fcall.in.applied
            actual  == fcall.in.actual
            out     == fcall.out.correlated
            absent  == Versions(applied) \ Versions(actual)
        IN  /\ fcall.out.err \in {NoError, ErrorSomeMigrationsAreAbsent}
            /\ fcall.out.err = NoError <=> absent = {}
            /\ fcall.out.err = NoError =>
                    /\ Len(out) = Len(applied)
                    /\ \A n \in DOMAIN out :
                          /\ out[n].Version = applied[n].Version
                          /\ \E k \in DOMAIN actual : out[n] = actual[k]
            /\ fcall.out.err # NoError =>
                    /\ out # << >>
                    /\ out[Len(out)].Version = Lowest(absent)

\* Both outcomes at their most telling: a lowest absent version that is not
\* the first applied one.
C13_Witness ==
    /\ Returned1("correlateMigrations")
    /\ fcall.out.err = ErrorSomeMigrationsAreAbsent
    /\ Len(fcall.out.correlated) >= 2
    /\ Len(fcall.in.applied) > Len(fcall.out.correlated)

-----------------------------------------------------------------------------
(* C14                                                                     *)

\* C14: when `reset` returns ErrorSomeMigrationsAreAbsent, old is the
\* version before the command and new is the lowest recorded version that
\* has no known migration.  Stated for recorded versions that are not
\* negative.
C14_ResetReportsAbsent ==
    (/\ Returned("reset") /\ F.err = ErrorSomeMigrationsAreAbsent
     /\ \A v \in DocVersions(F.db0) : v >= 0)
        => /\ F.oldVersion = Current(F.db0)
           /\ F.newVersion = Lowest(DocVersions(F.db0) \ Versions(known))

-----------------------------------------------------------------------------
(* C15                                                                     *)

\* `set_version` was called on a collection with documents for a target
\* that is no known version, and its read did not fail.
C15_Case ==
    /\ F.cmd = "set_version" /\ F.err \notin RunErrors \cup {ReadError}
    /\ F.db0 # EmptyBag
    /\ F.target \notin Versions(known)

\* C15: then `set_version` returns ErrorTargetVersionNotFound at once: it
\* calls no migration function and the collection stays as it was.
C15_TargetNotFound ==
    C15_Case =>
        /\ F.pc = "done"
        /\ F.err = ErrorTargetVersionNotFound
        /\ F.ops = << >>
        /\ db = F.db0

C15_Witness == C15_Case /\ F.pc = "done" /\ BagCardinality(F.db0) >= 2 /\ Len(known) >= 2

-----------------------------------------------------------------------------
(* C16                                                                     *)

\* The script is an `init` that succeeded followed by `up` and `down`
\* commands only, and a `down` has returned that found the collection at
\* version 0.
C16_Case ==
    /\ StartsWithInit
    /\ \A n \in DOMAIN script : script[n].cmd \in {"init", "up", "down"}
    /\ Returned("down")
    /\ F.db0 # EmptyBag /\ Current(F.db0) = 0

\* C16: a `down` at version 0 returns old = new = 0 without an error,
\* calls no Down and deletes no record.
C16_DownAtZero ==
    C16_Case =>
        /\ F.err = NoError
        /\ F.oldVersion = 0 /\ F.newVersion = 0
        /\ F.ops = << >>
        /\ db = F.db0

-----------------------------------------------------------------------------
(* C17                                                                     *)

StrictlyAscending(migs) ==
    \A a, b \in DOMAIN migs : a < b => migs[a].Version < migs[b].Version

\* C17: for a caller's list of pairwise distinct versions, the list the
\* constructor builds is strictly ascending by version and starts with the
\* zero migration.  Stated for lists without the version 0, whose place
\* next to the zero migration sort.Sort leaves open.
C17_KnownSetStartsAtZero ==
    (Returned1("NewMigrator") /\ 0 \notin Versions(fcall.in.migrations))
        => /\ StrictlyAscending(fcall.out.migrations)
           /\ fcall.out.migrations[1] = ZeroMigration

-----------------------------------------------------------------------------
(* C18                                                                     *)

\* C18: for version-ascending applied and actual with unique versions and
\* any target, the output of mergeMigrations is strictly ascending by
\* version, holds every item of applied, and holds the stored item at
\* every version applied has.  Stated for versions that are not negative.
C18_Merge ==
    (/\ Returned1("mergeMigrations")
     /\ \A v \in Versions(fcall.in.applied) \cup Versions(fcall.in.actual) : v >= 0) =>
        LET applied == fcall.in.applied
            merged  == fcall.out.merged
        IN  /\ ~fcall.out.panic
            /\ StrictlyAscending(merged)
            /\ \A n \in DOMAIN applied : \E k \in DOMAIN merged : merged[k] = applied[n]
            /\ \A k \in DOMAIN merged :
                  merged[k].Version \in Versions(applied) => merged[k].Stored

-----------------------------------------------------------------------------
(* C19                                                                     *)

\* The documents the command has added to the collection it found.
Inserted == {d \in BagToSet(db) : CopiesIn(d, db) > CopiesIn(d, F.db0)}

\* The number of calls of migration functions that returned no error.
Succeeded == Cardinality({n \in DOMAIN F.ops : F.ops[n].ok})

\* C19: within an `up`, only a record of a version whose Up has returned
\* no error is inserted, one at a time and before the next Up is called;
\* a failed Up is the last call of the command and a failed call ends the
\* command there, with no record of the version whose Up failed.
C19_UpStepByStep ==
    (F.cmd = "up" /\ F.err \notin RunErrors) =>
        /\ \A n \in DOMAIN F.ops : F.ops[n].op = "up" /\ (n < Len(F.ops) => F.ops[n].ok)
        /\ \A d \in Inserted :
              /\ CopiesIn(d, db) = CopiesIn(d, F.db0) + 1
              /\ \E n \in DOMAIN F.ops : F.ops[n].ok /\ F.ops[n].version = d.Version
        /\ \A d \in BagToSet(F.db0) : CopiesIn(d, db) >= CopiesIn(d, F.db0)
        /\ Cardinality(Inserted) =
              (IF F.pc = "up_insert" \/ F.err = WriteError THEN Succeeded - 1 ELSE Succeeded)
        /\ F.err \in {ApplyError, WriteError, ReadError, Panic} => F.pc = "done"
        /\ (F.ops # << >> /\ ~F.ops[Len(F.ops)].ok) => F.err = ApplyError

\* An `up` that applied and recorded a version, then stopped at a failure.
C19_Witness ==
    /\ F.cmd = "up" /\ F.pc = "done" /\ F.err \in {ApplyError, WriteError}
    /\ Len(F.ops) >= 2 /\ Inserted # {}

-----------------------------------------------------------------------------
(* C20                                                                     *)

\* C20: the constructor leaves the caller's list as it was, also when the
\* slice has spare capacity, and a second migrator made from the list has
\* the known migrations of the first.  Stated for versions above 0.
C20_CallerListUntouched ==
    (Returned1("NewMigrator") /\ \A v \in Versions(fcall.in.migrations) : v > 0)
        => /\ fcall.out.caller = fcall.in.migrations
           /\ fcall.out.again = fcall.out.migrations

-----------------------------------------------------------------------------
(* C21                                                                     *)

\* C21: for version-ascending applied and actual and any target,
\* mergeMigrations returns without reading applied or actual outside its
\* bounds.  Stated for versions that are not negative.
C21_MergeStaysInRange ==
    (/\ Returned1("mergeMigrations")
     /\ \A v \in Versions(fcall.in.applied) \cup Versions(fcall.in.actual) : v >= 0)
        => ~fcall.out.panic

-----------------------------------------------------------------------------
(* C22                                                                     *)

\* C22: when `init`, `up`, `down`, `reset` or `set_version` returns no
\* error, the collection holds documents and the new version returned is
\* the highest recorded version, the one `version` would return next.
\* Stated for versions that are not negative and a command that found the
\* zero record (`init` apart).
C22_NewVersionIsCurrent ==
    (/\ F.pc = "done" /\ F.err = NoError
     /\ F.cmd \in {"init", "up", "down", "reset", "set_version"}
     /\ F.cmd = "init" \/ HasVersion(F.db0, 0)
     /\ \A v \in Versions(known) \cup DocVersions(F.db0) : v >= 0)
        => /\ db # EmptyBag
           /\ F.newVersion = Current(db)
           /\ VersionFind(F, db, FALSE).newVersion = F.newVersion

-----------------------------------------------------------------------------
(* C23                                                                     *)

\* The script starts with `init`, the last command has returned, and the
\* known versions are not negative.
C23_Case ==
    /\ StartsWithInit
    /\ F.pc = "done"
    /\ \A v \in Versions(known) : v >= 0

\* C23: then the collection holds each version once, and the versions it
\* holds are the known versions up to the current version.
C23_HistoryIsPrefix ==
    C23_Case =>
        /\ db # EmptyBag
        /\ \A d \in BagToSet(db) : CopiesIn(d, db) = 1
        /\ DocVersions(db) = {v \in Versions(known) : v <= Current(db)}

\* A collection cut back by set_version below a version it held.
C23_Witness ==
    /\ C23_Case /\ Len(script) = 3
    /\ F.cmd = "set_version" /\ F.err = NoError
    /\ BagCardinality(db) = 2 /\ BagCardinality(F.db0) = 3

-----------------------------------------------------------------------------
(* C24                                                                     *)

G == inv["q"]

\* Two `up` commands of the same build have read the same history of an
\* initialized collection that held each version once.
C24_Case ==
    /\ F.cmd = "up" /\ G.cmd = "up"
    /\ F.err = NoError /\ G.err = NoError
    /\ F.db0 = G.db0 /\ HasVersion(F.db0, 0)
    /\ \A d \in BagToSet(F.db0) : CopiesIn(d, F.db0) = 1
    /\ \A v \in Versions(known) : v >= 0

\* C24: then no version has its Up called by both, and the collection
\* holds each version once.
C24_UpOnceInTotal ==
    C24_Case =>
        /\ Called(F, "up") \cap Called(G, "up") = {}
        /\ \A d \in BagToSet(db) : CopiesIn(d, db) = 1

====
